---- MODULE Spec2Model ----
(***************************************************************************)
(* A model of the chip8-emu interpreter: the Bus (bus.rs), the Keypad      *)
(* adapter (keypad.rs) and the CPU (cpu.rs).  The CPU struct is the record *)
(* `cpu`; every handler of cpu.rs is an operator from a CPU record to the  *)
(* CPU record it leaves, or to a Panic value when the Rust code panics.    *)
(* Arithmetic written with the plain operators of Rust panics on overflow  *)
(* in a build with overflow checks and wraps in a build without them: the  *)
(* build profile is the variable overflow_checks, chosen at construction.  *)
(***************************************************************************)
EXTENDS Integers, Sequences, FiniteSets, TLC

(* ------------------------------------------------------------------ *)
(* Program constants                                                   *)
(* ------------------------------------------------------------------ *)
FREQUENCY == 500
WIDTH == 64
HEIGHT == 32
MemorySize == 4096
RegisterCount == 16
KeyRegisterCount == 9
\* ((1.0 / (FREQUENCY as f32 * 0.12)) * 1000.0) as u128: 16.66.. truncated
TimerPeriodMs == 16
U8 == 256
U16 == 65536

(* ------------------------------------------------------------------ *)
(* Bounds of the model                                                 *)
(* ------------------------------------------------------------------ *)
\* the Vec of the keypad bus is unbounded; sends stop at this length
MaxSignals == 2
\* the call stack is an unbounded Vec; calls stop at this depth
MaxStack == 2
\* the cycles a called subroutine is followed for, up to its return
MaxReturnSteps == 6
\* the wall clock (milliseconds since construction) stops here
MaxTime == 34

VARIABLES
    cpu,              \* the CPU struct (cpu.rs:10-23)
    now,              \* the wall clock (SystemTime::now()), in milliseconds
    overflow_checks,  \* the build profile: TRUE = overflow checks on (dev)
    fault,            \* "none", or the panic that ended the process
    memory_opcode,    \* the word fetched by the last cycle(), -1 before it
    sends             \* Bus::send calls since the last Bus::read

vars == << cpu, now, overflow_checks, fault, memory_opcode, sends >>

(* ------------------------------------------------------------------ *)
(* Bit operations on unsigned integers                                 *)
(* ------------------------------------------------------------------ *)
RECURSIVE BitAnd(_, _)
BitAnd(a, b) ==
    IF a = 0 \/ b = 0 THEN 0
    ELSE (a % 2) * (b % 2) + 2 * BitAnd(a \div 2, b \div 2)

RECURSIVE BitOr(_, _)
BitOr(a, b) ==
    IF a = 0 THEN b
    ELSE IF b = 0 THEN a
    ELSE (IF a % 2 = 1 \/ b % 2 = 1 THEN 1 ELSE 0) + 2 * BitOr(a \div 2, b \div 2)

RECURSIVE BitXor(_, _)
BitXor(a, b) ==
    IF a = 0 THEN b
    ELSE IF b = 0 THEN a
    ELSE ((a + b) % 2) + 2 * BitXor(a \div 2, b \div 2)

RECURSIVE Pow2(_)
Pow2(n) == IF n = 0 THEN 1 ELSE 2 * Pow2(n - 1)

\* v << n and v >> n on a w-wide unsigned integer (bits shifted out are lost)
Shl(v, n, w) == (v * Pow2(n)) % w
Shr(v, n) == v \div Pow2(n)

(* ------------------------------------------------------------------ *)
(* Zero-initialised arrays.  memory ([u8; 0x1000]) and display         *)
(* ([u8; 2048]) are kept as the function from the indices that hold a  *)
(* non-zero byte to that byte; every other index of the array holds 0. *)
(* The bounds checks of the Rust indexing are explicit in the handlers.*)
(* ------------------------------------------------------------------ *)
Zeroed == [i \in {} |-> 0]

Get(arr, i) == IF i \in DOMAIN arr THEN arr[i] ELSE 0

Put(arr, i, v) ==
    IF v = 0
    THEN [j \in DOMAIN arr \ {i} |-> arr[j]]
    ELSE (i :> v) @@ arr

\* arr[from .. from + Len(bytes)].copy_from_slice(bytes)
RECURSIVE PutSlice(_, _, _)
PutSlice(arr, from, bytes) ==
    IF Len(bytes) = 0 THEN arr
    ELSE PutSlice(Put(arr, from, Head(bytes)), from + 1, Tail(bytes))

(* ------------------------------------------------------------------ *)
(* A panic: the message, and the CPU as the panic left it              *)
(* ------------------------------------------------------------------ *)
Panic(msg, c) == [panic |-> msg, cpu |-> c]
IsPanic(r) == "panic" \in DOMAIN r

(* ------------------------------------------------------------------ *)
(* bus.rs                                                              *)
(* ------------------------------------------------------------------ *)
Bus_new == [signals |-> << >>]

\* a slot that keeps the last pair sent alone
Bus_send_overwrite(bus, d1, d2) == [bus EXCEPT !.signals = << << d1, d2 >> >>]

Bus_send(bus, d1, d2) == [bus EXCEPT !.signals = Append(@, << d1, d2 >>)]

\* a read that returns the last pair and drops the rest with it
Bus_read_clear(bus) ==
    IF Len(bus.signals) > 0
    THEN [signal |-> bus.signals[Len(bus.signals)],
          bus |-> [bus EXCEPT !.signals = << >>]]
    ELSE [signal |-> << 0, 0 >>, bus |-> bus]

\* the pair returned, and the bus left
Bus_read(bus) ==
    IF Len(bus.signals) > 0
    THEN [signal |-> bus.signals[Len(bus.signals)],
          bus |-> [bus EXCEPT !.signals = SubSeq(@, 1, Len(@) - 1)]]
    ELSE [signal |-> << 0, 0 >>, bus |-> bus]

(* ------------------------------------------------------------------ *)
(* keypad.rs                                                           *)
(* ------------------------------------------------------------------ *)
\* Keypad::new: the logical key of each of the nine physical keys, in order
Keypad_mapping == << 1, 2, 3, 4, 5, 6, 7, 8, 9 >>

\* the pairs Keypad::read sends when the keys of `pressed` were pressed and
\* the keys of `released` were released: for each key of the mapping, in
\* order, the pair of a press and then the pair of a release
RECURSIVE Keypad_pairs(_, _, _)
Keypad_pairs(i, pressed, released) ==
    IF i > Len(Keypad_mapping) THEN << >>
    ELSE LET value == Keypad_mapping[i]
         IN (IF value \in pressed THEN << << value, 1 >> >> ELSE << >>)
            \o (IF value \in released THEN << << value, 0 >> >> ELSE << >>)
            \o Keypad_pairs(i + 1, pressed, released)

\* bus.send(d1, d2) for each pair, in order
RECURSIVE send_all(_, _)
send_all(bus, pairs) ==
    IF Len(pairs) = 0 THEN bus
    ELSE send_all(Bus_send(bus, Head(pairs)[1], Head(pairs)[2]), Tail(pairs))

Keypad_read(pressed, released, bus) == send_all(bus, Keypad_pairs(1, pressed, released))

(* ------------------------------------------------------------------ *)
(* cpu.rs: construction, timers, fetch and decode                      *)
(* ------------------------------------------------------------------ *)
\* CPU::new at wall-clock time t
CPU_new(t) ==
    [ buses |-> << Bus_new, Bus_new >>,
      key_registers |-> [k \in 0 .. KeyRegisterCount - 1 |-> 0],
      registers |-> [r \in 0 .. RegisterCount - 1 |-> 0],
      memory |-> Zeroed,
      display |-> Zeroed,
      stack |-> << >>,
      pc |-> 512,
      pointer |-> 0,
      delay_timer |-> 0,
      delay_timer_timestamp |-> t,
      sound_timer |-> 0,
      sound_timer_timestamp |-> t ]

\* CPU::load_rom: the bytes of the rom, from address 0x200
load_rom(c, rom) ==
    IF 512 + Len(rom) > MemorySize
    THEN Panic("index out of bounds", c)
    ELSE [c EXCEPT !.memory = PutSlice(@, 512, rom)]

get_sound_timer(c) == c.sound_timer

saturating_sub(v, n) == IF v >= n THEN v - n ELSE 0

update_sound_timer(c) ==
    IF c.sound_timer > 0 /\ now - c.sound_timer_timestamp >= TimerPeriodMs
    THEN [c EXCEPT !.sound_timer_timestamp = now,
                   !.sound_timer = saturating_sub(@, 1)]
    ELSE c

\* an update that decrements at every call, whatever time has elapsed
update_delay_timer_each_call(c) ==
    [c EXCEPT !.delay_timer_timestamp = now,
              !.delay_timer = saturating_sub(@, 1)]

update_delay_timer(c) ==
    IF now - c.delay_timer_timestamp >= TimerPeriodMs
    THEN [c EXCEPT !.delay_timer_timestamp = now,
                   !.delay_timer = saturating_sub(@, 1)]
    ELSE c

\* the word at pc, or a panic when pc or pc + 1 is outside the memory
read_memory_opcode(c) ==
    IF c.pc + 1 >= MemorySize
    THEN Panic("index out of bounds", c)
    ELSE [opcode |-> BitOr(Shl(Get(c.memory, c.pc), 8, U16),
                           Get(c.memory, c.pc + 1))]

decompose_opcode(opcode) ==
    << Shr(opcode, 12),
       BitAnd(Shr(opcode, 8), 15),
       BitAnd(Shr(opcode, 4), 15),
       BitAnd(opcode, 15) >>

\* self.pc += n and self.pc -= n on a u16
pc_add(c, n) ==
    IF c.pc + n >= U16 /\ overflow_checks
    THEN Panic("attempt to add with overflow", c)
    ELSE [c EXCEPT !.pc = (c.pc + n) % U16]

pc_sub(c, n) ==
    IF c.pc < n /\ overflow_checks
    THEN Panic("attempt to subtract with overflow", c)
    ELSE [c EXCEPT !.pc = (c.pc - n) % U16]

\* (n1 as u16) << 8 | (n2 as u16) << 4 | n3 as u16
address_of(n1, n2, n3) == BitOr(BitOr(Shl(n1, 8, U16), Shl(n2, 4, U16)), n3)

\* n1 << 4 | n2 on u8
byte_of(n1, n2) == BitOr(Shl(n1, 4, U8), n2)

(* ------------------------------------------------------------------ *)
(* cpu.rs: the keypad bus and the key instructions                     *)
(* ------------------------------------------------------------------ *)
\* self.buses[0] is buses[1] here: sequences start at 1
read_keypad_bus(c) ==
    LET r == Bus_read(c.buses[1])
        c1 == [c EXCEPT !.buses[1] = r.bus]
        key == r.signal[1]
        value == r.signal[2]
    IN IF r.signal = << 0, 0 >> THEN c1
       ELSE IF key >= KeyRegisterCount THEN Panic("key index out of bounds", c1)
       ELSE [c1 EXCEPT !.key_registers[key] = value]

skip_if_key_pressed(c, register_x) ==
    LET expected_key == c.registers[register_x]
    IN IF expected_key >= KeyRegisterCount THEN Panic("key index out of bounds", c)
       ELSE IF c.key_registers[expected_key] = 1 THEN pc_add(c, 2)
       ELSE c

skip_if_key_not_pressed(c, register_x) ==
    LET expected_key == c.registers[register_x]
    IN IF expected_key >= KeyRegisterCount THEN Panic("key index out of bounds", c)
       ELSE IF c.key_registers[expected_key] = 0 THEN pc_add(c, 2)
       ELSE c

wait_for_key_press(c, register_x) ==
    LET pressed == {key \in 0 .. KeyRegisterCount - 1 : c.key_registers[key] = 1}
    IN IF pressed # {}
       THEN LET key == CHOOSE k \in pressed : \A j \in pressed : k <= j
            IN [c EXCEPT !.registers[register_x] = c.key_registers[key]]
       ELSE pc_sub(c, 2)

(* ------------------------------------------------------------------ *)
(* cpu.rs: memory transfers, pointer and timer instructions            *)
(* ------------------------------------------------------------------ *)
\* a store of the three digits, units first
store_bcd_units_first(c, register_x) ==
    LET reg_value == c.registers[register_x]
        bcd == << reg_value % 10,
                  (reg_value \div 10) % 10,
                  reg_value \div 100 >>
    IN IF c.pointer + 3 > MemorySize
       THEN Panic("range end index out of range", c)
       ELSE [c EXCEPT !.memory = PutSlice(@, c.pointer, bcd)]

store_bcd_in_memory(c, register_x) ==
    LET reg_value == c.registers[register_x]
        bcd == << ((reg_value - (reg_value % 100)) \div 100) % 100,
                  ((reg_value - (reg_value % 10)) \div 10) % 10,
                  reg_value % 10 >>
    IN IF c.pointer + 3 > MemorySize
       THEN Panic("range end index out of range", c)
       ELSE [c EXCEPT !.memory = PutSlice(@, c.pointer, bcd)]

skip_if_equal_registers(c, register_x, register_y) ==
    IF c.registers[register_x] = c.registers[register_y] THEN pc_add(c, 2) ELSE c

fills_memory_from_registers(c, max_register) ==
    IF c.pointer + max_register + 1 > MemorySize
    THEN Panic("range end index out of range", c)
    ELSE [c EXCEPT !.registers =
             [r \in 0 .. RegisterCount - 1 |->
                 IF r <= max_register THEN Get(c.memory, c.pointer + r) ELSE @[r]]]

\* a store that leaves the index pointer past the last byte stored
store_registers_advance_pointer(c, max_register) ==
    IF c.pointer + max_register + 1 > MemorySize
    THEN Panic("range end index out of range", c)
    ELSE [c EXCEPT !.memory =
             PutSlice(@, c.pointer, [r \in 1 .. max_register + 1 |-> c.registers[r - 1]]),
                   !.pointer = c.pointer + max_register + 1]

store_registers_in_memory(c, max_register) ==
    IF c.pointer + max_register + 1 > MemorySize
    THEN Panic("range end index out of range", c)
    ELSE [c EXCEPT !.memory =
             PutSlice(@, c.pointer, [r \in 1 .. max_register + 1 |-> c.registers[r - 1]])]

add_register_x_to_pointer(c, register) ==
    LET v == c.pointer + c.registers[register]
    IN IF v >= U16 /\ overflow_checks
       THEN Panic("attempt to add with overflow", c)
       ELSE [c EXCEPT !.pointer = v % U16]

set_register_x_to_delay_timer(c, register) ==
    [c EXCEPT !.registers[register] = c.delay_timer]

set_delay_timer_to_register_x(c, register) ==
    [c EXCEPT !.delay_timer = c.registers[register]]

set_sound_timer_to_register_x(c, register) ==
    [c EXCEPT !.sound_timer = c.registers[register]]

\* the product is a u8: it overflows from 52 on
set_pointer_to_sprite(c, register) ==
    LET v == c.registers[register] * 5
    IN IF v >= U8 /\ overflow_checks
       THEN Panic("attempt to multiply with overflow", c)
       ELSE [c EXCEPT !.pointer = v % U8]

(* ------------------------------------------------------------------ *)
(* cpu.rs: register instructions                                       *)
(* ------------------------------------------------------------------ *)
set_register(c, register, value) == [c EXCEPT !.registers[register] = value]

\* an addition that records the carry in the flag register
add_to_register_with_carry(c, register, value) ==
    LET sum == c.registers[register] + value
        c1 == [c EXCEPT !.registers[15] = IF sum >= U8 THEN 1 ELSE 0]
    IN [c1 EXCEPT !.registers[register] = sum % U8]

add_to_register(c, register, value) ==
    [c EXCEPT !.registers[register] = (@ + value) % U8]

set_register_x_to_register_y(c, register_x, register_y) ==
    [c EXCEPT !.registers[register_x] = c.registers[register_y]]

set_register_x_or_register_y(c, register_x, register_y) ==
    [c EXCEPT !.registers[register_x] = BitOr(@, c.registers[register_y])]

set_register_x_and_register_y(c, register_x, register_y) ==
    [c EXCEPT !.registers[register_x] = BitAnd(@, c.registers[register_y])]

set_register_x_xor_register_y(c, register_x, register_y) ==
    [c EXCEPT !.registers[register_x] = BitXor(@, c.registers[register_y])]

\* the flag is written first, the sum second
add_register_y_to_register_x(c, register_x, register_y) ==
    LET sum == c.registers[register_x] + c.registers[register_y]
        v == sum % U8
        overflow == sum >= U8
        c1 == [c EXCEPT !.registers[15] = IF overflow THEN 1 ELSE 0]
    IN [c1 EXCEPT !.registers[register_x] = v]

\* the flag is written first, the difference second
sub_register_y_to_register_x(c, register_x, register_y) ==
    LET diff == c.registers[register_x] - c.registers[register_y]
        v == diff % U8
        overflow == diff < 0
        c1 == [c EXCEPT !.registers[15] = IF overflow THEN 1 ELSE 0]
    IN [c1 EXCEPT !.registers[register_x] = v]

store_shift_register_x_least(c, register_x) ==
    LET least_significant_bit == BitAnd(c.registers[register_x], 15)
        c1 == [c EXCEPT !.registers[15] = least_significant_bit]
    IN [c1 EXCEPT !.registers[register_x] = Shr(@, 1)]

store_shift_register_x_most(c, register_x) ==
    LET most_significant_bit == BitAnd(Shr(c.registers[register_x], 7), 1)
        c1 == [c EXCEPT !.registers[15] = most_significant_bit]
    IN [c1 EXCEPT !.registers[register_x] = Shl(@, 1, U8)]

\* a plain u8 subtraction: it panics on underflow when overflow checks are
\* on and wraps when they are off
diff_register_y_and_register_x(c, register_x, register_y) ==
    LET register_x_value == c.registers[register_x]
        diff == c.registers[register_y] - register_x_value
    IN IF diff < 0 /\ overflow_checks
       THEN Panic("attempt to subtract with overflow", c)
       ELSE [c EXCEPT !.registers[register_x] = diff % U8]

comp_register_x_register_y_skip(c, register_x, register_y) ==
    IF c.registers[register_x] # c.registers[register_y] THEN pc_add(c, 2) ELSE c

set_pointer_address(c, n1, n2, n3) == [c EXCEPT !.pointer = address_of(n1, n2, n3)]

jump_to_address_plus_v0(c, n1, n2, n3) ==
    [c EXCEPT !.pc = address_of(n1, n2, n3) + c.registers[0]]

set_register_x_rand_and_value(c, register_x, n1, n2, random_number) ==
    [c EXCEPT !.registers[register_x] = BitAnd(random_number, byte_of(n1, n2))]

goto(c, n1, n2, n3) == [c EXCEPT !.pc = address_of(n1, n2, n3)]

\* a call that pushes the program counter it was fetched at
call_subroutine_push_fetched(c, n1, n2, n3) ==
    [c EXCEPT !.stack = Append(@, c.pc - 2), !.pc = address_of(n1, n2, n3)]

call_subroutine(c, n1, n2, n3) ==
    [c EXCEPT !.stack = Append(@, c.pc), !.pc = address_of(n1, n2, n3)]

\* a return that does nothing when the call stack is empty
return_from_subroutine_silent(c) ==
    IF Len(c.stack) = 0
    THEN c
    ELSE [c EXCEPT !.pc = c.stack[Len(c.stack)],
                   !.stack = SubSeq(@, 1, Len(@) - 1)]

return_from_subroutine(c) ==
    IF Len(c.stack) = 0
    THEN Panic("unwrap on None", c)
    ELSE [c EXCEPT !.pc = c.stack[Len(c.stack)],
                   !.stack = SubSeq(@, 1, Len(@) - 1)]

skip_if_equal(c, register_x, n1, n2) ==
    LET value == byte_of(n1, n2)
    IN IF c.registers[register_x] = value THEN pc_add(c, 2) ELSE c

skip_if_not_equal(c, register_x, n1, n2) ==
    LET value == byte_of(n1, n2)
    IN IF c.registers[register_x] # value THEN pc_add(c, 2) ELSE c

(* ------------------------------------------------------------------ *)
(* cpu.rs: the display                                                 *)
(* ------------------------------------------------------------------ *)
\* a clear that leaves the cells as they are
clear_display_nothing(c) == c

clear_display(c) == [c EXCEPT !.display = Zeroed]

\* the cell the code toggles for bit x_line of row y_line
draw_index(x, y, x_line, y_line) ==
    (x + x_line + ((y + y_line) * WIDTH)) % (WIDTH * HEIGHT)

\* an inner loop that sets the cells of the set bits instead of toggling them
RECURSIVE draw_line_set(_, _, _, _, _, _)
draw_line_set(c, x, y, y_line, pixel, x_line) ==
    IF x_line >= 8 THEN c
    ELSE IF BitAnd(pixel, Shr(128, x_line)) # 0
         THEN LET index == draw_index(x, y, x_line, y_line)
                  c1 == IF Get(c.display, index) = 1
                        THEN [c EXCEPT !.registers[15] = 1] ELSE c
                  c2 == [c1 EXCEPT !.display = Put(@, index, 1)]
              IN draw_line_set(c2, x, y, y_line, pixel, x_line + 1)
         ELSE draw_line_set(c, x, y, y_line, pixel, x_line + 1)

\* an inner loop that adds 1 to the cells of the set bits
RECURSIVE draw_line_add(_, _, _, _, _, _)
draw_line_add(c, x, y, y_line, pixel, x_line) ==
    IF x_line >= 8 THEN c
    ELSE IF BitAnd(pixel, Shr(128, x_line)) # 0
         THEN LET index == draw_index(x, y, x_line, y_line)
                  c1 == IF Get(c.display, index) = 1
                        THEN [c EXCEPT !.registers[15] = 1] ELSE c
                  c2 == [c1 EXCEPT !.display = Put(@, index, Get(@, index) + 1)]
              IN draw_line_add(c2, x, y, y_line, pixel, x_line + 1)
         ELSE draw_line_add(c, x, y, y_line, pixel, x_line + 1)

\* the inner loop of draw_sprite, from bit x_line of one row on
RECURSIVE draw_line(_, _, _, _, _, _)
draw_line(c, x, y, y_line, pixel, x_line) ==
    IF x_line >= 8 THEN c
    ELSE IF BitAnd(pixel, Shr(128, x_line)) # 0
         THEN LET index == draw_index(x, y, x_line, y_line)
                  c1 == IF Get(c.display, index) = 1
                        THEN [c EXCEPT !.registers[15] = 1] ELSE c
                  c2 == [c1 EXCEPT !.display = Put(@, index, BitXor(Get(@, index), 1))]
              IN draw_line(c2, x, y, y_line, pixel, x_line + 1)
         ELSE draw_line(c, x, y, y_line, pixel, x_line + 1)

\* the outer loop of draw_sprite, from row y_line on
RECURSIVE draw_lines(_, _, _, _, _)
draw_lines(c, x, y, height, y_line) ==
    IF y_line >= height THEN c
    ELSE IF c.pointer + y_line >= MemorySize
         THEN Panic("index out of bounds", c)
         ELSE LET pixel == Get(c.memory, c.pointer + y_line)
              IN draw_lines(draw_line(c, x, y, y_line, pixel, 0),
                            x, y, height, y_line + 1)

\* a draw that does not reset the flag register at entry
draw_sprite_keep_flag(c, register_x, register_y, n1) ==
    draw_lines(c, c.registers[register_x], c.registers[register_y], n1, 0)

draw_sprite(c, register_x, register_y, n1) ==
    LET x == c.registers[register_x]
        y == c.registers[register_y]
        height == n1
        c1 == [c EXCEPT !.registers[15] = 0]
    IN draw_lines(c1, x, y, height, 0)

(* ------------------------------------------------------------------ *)
(* cpu.rs: cycle                                                       *)
(* ------------------------------------------------------------------ *)
\* the match of cycle(), arm by arm in the order of the source
execute(c, opcode, random_number) ==
    LET n == decompose_opcode(opcode)
        a == n[1]
        b == n[2]
        d == n[3]
        e == n[4]
    IN IF a = 0 /\ b = 0 /\ d = 14 /\ e = 0 THEN clear_display(c)
       ELSE IF a = 0 /\ b = 0 /\ d = 14 /\ e = 14 THEN return_from_subroutine(c)
       ELSE IF a = 1 THEN goto(c, b, d, e)
       ELSE IF a = 2 THEN call_subroutine(c, b, d, e)
       ELSE IF a = 3 THEN skip_if_equal(c, b, d, e)
       ELSE IF a = 4 THEN skip_if_not_equal(c, b, d, e)
       ELSE IF a = 5 /\ e = 0 THEN skip_if_equal_registers(c, b, d)
       ELSE IF a = 6 THEN set_register(c, b, byte_of(d, e))
       ELSE IF a = 7 THEN add_to_register(c, b, byte_of(d, e))
       ELSE IF a = 8 /\ e = 0 THEN set_register_x_to_register_y(c, b, d)
       ELSE IF a = 8 /\ e = 1 THEN set_register_x_or_register_y(c, b, d)
       ELSE IF a = 8 /\ e = 2 THEN set_register_x_and_register_y(c, b, d)
       ELSE IF a = 8 /\ e = 3 THEN set_register_x_xor_register_y(c, b, d)
       ELSE IF a = 8 /\ e = 4 THEN add_register_y_to_register_x(c, b, d)
       ELSE IF a = 8 /\ e = 5 THEN sub_register_y_to_register_x(c, b, d)
       ELSE IF a = 8 /\ e = 6 THEN store_shift_register_x_least(c, b)
       ELSE IF a = 8 /\ e = 7 THEN diff_register_y_and_register_x(c, b, d)
       ELSE IF a = 8 /\ e = 14 THEN store_shift_register_x_most(c, b)
       ELSE IF a = 9 /\ e = 0 THEN comp_register_x_register_y_skip(c, b, d)
       ELSE IF a = 10 THEN set_pointer_address(c, b, d, e)
       ELSE IF a = 11 THEN jump_to_address_plus_v0(c, b, d, e)
       ELSE IF a = 12 THEN set_register_x_rand_and_value(c, b, d, e, random_number)
       ELSE IF a = 13 THEN draw_sprite(c, b, d, e)
       ELSE IF a = 14 /\ d = 9 /\ e = 14 THEN skip_if_key_pressed(c, b)
       ELSE IF a = 14 /\ d = 10 /\ e = 1 THEN skip_if_key_not_pressed(c, b)
       ELSE IF a = 15 /\ d = 0 /\ e = 7 THEN set_register_x_to_delay_timer(c, b)
       ELSE IF a = 15 /\ d = 0 /\ e = 10 THEN wait_for_key_press(c, b)
       ELSE IF a = 15 /\ d = 1 /\ e = 5 THEN set_delay_timer_to_register_x(c, b)
       ELSE IF a = 15 /\ d = 1 /\ e = 8 THEN set_sound_timer_to_register_x(c, b)
       ELSE IF a = 15 /\ d = 1 /\ e = 14 THEN add_register_x_to_pointer(c, b)
       ELSE IF a = 15 /\ d = 2 /\ e = 9 THEN set_pointer_to_sprite(c, b)
       ELSE IF a = 15 /\ d = 3 /\ e = 3 THEN store_bcd_in_memory(c, b)
       ELSE IF a = 15 /\ d = 5 /\ e = 5 THEN store_registers_in_memory(c, b)
       ELSE IF a = 15 /\ d = 6 /\ e = 5 THEN fills_memory_from_registers(c, b)
       ELSE IF a = 0 /\ b = 0 /\ d = 0 /\ e = 0 THEN Panic("Done", c)
       ELSE Panic("not yet implemented: Unknown instruction", c)

\* the word with nibbles n matches the pattern of an arm that calls a
\* handler (every arm of the match but the halt arm and the catch-all)
handler_pattern(n) ==
    LET a == n[1]
        b == n[2]
        d == n[3]
        e == n[4]
    IN \/ a = 0 /\ b = 0 /\ d = 14 /\ e \in {0, 14}
       \/ a \in {1, 2, 3, 4, 6, 7, 10, 11, 12, 13}
       \/ a \in {5, 9} /\ e = 0
       \/ a = 8 /\ e \in {0, 1, 2, 3, 4, 5, 6, 7, 14}
       \/ a = 14 /\ << d, e >> \in { << 9, 14 >>, << 10, 1 >> }
       \/ a = 15 /\ << d, e >> \in { << 0, 7 >>, << 0, 10 >>, << 1, 5 >>, << 1, 8 >>,
                                   << 1, 14 >>, << 2, 9 >>, << 3, 3 >>, << 5, 5 >>,
                                   << 6, 5 >> }

\* the patterns of the arms of the match, in the order of the source: the
\* four nibbles, -1 where the arm binds a name or has a wildcard; the last one
\* is the halt arm
arms ==
    << << 0, 0, 14, 0 >>, << 0, 0, 14, 14 >>, << 1, -1, -1, -1 >>, << 2, -1, -1, -1 >>,
       << 3, -1, -1, -1 >>, << 4, -1, -1, -1 >>, << 5, -1, -1, 0 >>, << 6, -1, -1, -1 >>,
       << 7, -1, -1, -1 >>, << 8, -1, -1, 0 >>, << 8, -1, -1, 1 >>, << 8, -1, -1, 2 >>,
       << 8, -1, -1, 3 >>, << 8, -1, -1, 4 >>, << 8, -1, -1, 5 >>, << 8, -1, -1, 6 >>,
       << 8, -1, -1, 7 >>, << 8, -1, -1, 14 >>, << 9, -1, -1, 0 >>, << 10, -1, -1, -1 >>,
       << 11, -1, -1, -1 >>, << 12, -1, -1, -1 >>, << 13, -1, -1, -1 >>,
       << 14, -1, 9, 14 >>, << 14, -1, 10, 1 >>, << 15, -1, 0, 7 >>, << 15, -1, 0, 10 >>,
       << 15, -1, 1, 5 >>, << 15, -1, 1, 8 >>, << 15, -1, 1, 14 >>, << 15, -1, 2, 9 >>,
       << 15, -1, 3, 3 >>, << 15, -1, 5, 5 >>, << 15, -1, 6, 5 >>, << 0, 0, 0, 0 >> >>

\* a match that takes 5xy_ whatever its last nibble is
arm_matches_any_5xy(k, n) ==
    \A i \in 1 .. 4 : arms[k][i] \in {-1, n[i]} \/ (arms[k][1] = 5 /\ i = 4)

\* the word with nibbles n matches the pattern of arm k
arm_matches(k, n) == \A i \in 1 .. 4 : arms[k][i] \in {-1, n[i]}

\* the right-hand side of arm k for the word with nibbles n
arm_handler(c, k, n, random_number) ==
    LET b == n[2]
        d == n[3]
        e == n[4]
    IN CASE k = 1 -> clear_display(c)
         [] k = 2 -> return_from_subroutine(c)
         [] k = 3 -> goto(c, b, d, e)
         [] k = 4 -> call_subroutine(c, b, d, e)
         [] k = 5 -> skip_if_equal(c, b, d, e)
         [] k = 6 -> skip_if_not_equal(c, b, d, e)
         [] k = 7 -> skip_if_equal_registers(c, b, d)
         [] k = 8 -> set_register(c, b, byte_of(d, e))
         [] k = 9 -> add_to_register(c, b, byte_of(d, e))
         [] k = 10 -> set_register_x_to_register_y(c, b, d)
         [] k = 11 -> set_register_x_or_register_y(c, b, d)
         [] k = 12 -> set_register_x_and_register_y(c, b, d)
         [] k = 13 -> set_register_x_xor_register_y(c, b, d)
         [] k = 14 -> add_register_y_to_register_x(c, b, d)
         [] k = 15 -> sub_register_y_to_register_x(c, b, d)
         [] k = 16 -> store_shift_register_x_least(c, b)
         [] k = 17 -> diff_register_y_and_register_x(c, b, d)
         [] k = 18 -> store_shift_register_x_most(c, b)
         [] k = 19 -> comp_register_x_register_y_skip(c, b, d)
         [] k = 20 -> set_pointer_address(c, b, d, e)
         [] k = 21 -> jump_to_address_plus_v0(c, b, d, e)
         [] k = 22 -> set_register_x_rand_and_value(c, b, d, e, random_number)
         [] k = 23 -> draw_sprite(c, b, d, e)
         [] k = 24 -> skip_if_key_pressed(c, b)
         [] k = 25 -> skip_if_key_not_pressed(c, b)
         [] k = 26 -> set_register_x_to_delay_timer(c, b)
         [] k = 27 -> wait_for_key_press(c, b)
         [] k = 28 -> set_delay_timer_to_register_x(c, b)
         [] k = 29 -> set_sound_timer_to_register_x(c, b)
         [] k = 30 -> add_register_x_to_pointer(c, b)
         [] k = 31 -> set_pointer_to_sprite(c, b)
         [] k = 32 -> store_bcd_in_memory(c, b)
         [] k = 33 -> store_registers_in_memory(c, b)
         [] k = 34 -> fills_memory_from_registers(c, b)
         [] k = 35 -> Panic("Done", c)

\* cycle() up to the two timer updates: fetch, pc += 2, the match, the timers
cycle_to_timers(c, random_number) ==
    LET f == read_memory_opcode(c)
    IN IF IsPanic(f) THEN f
       ELSE LET c1 == pc_add(c, 2)
            IN IF IsPanic(c1) THEN c1
               ELSE LET r == execute(c1, f.opcode, random_number)
                    IN IF IsPanic(r) THEN r
                       ELSE update_sound_timer(update_delay_timer(r))

\* a cycle that drains the keypad bus first and executes the instruction after
cycle_drain_first(c, random_number) ==
    LET d == read_keypad_bus(c)
    IN IF IsPanic(d) THEN d ELSE cycle_to_timers(d, random_number)

\* cycle(): the CPU it leaves, or the panic that ends it
cycle(c, random_number) ==
    LET t == cycle_to_timers(c, random_number)
    IN IF IsPanic(t) THEN t ELSE read_keypad_bus(t)

(* ------------------------------------------------------------------ *)
(* Inputs                                                              *)
(* ------------------------------------------------------------------ *)
\* the two bytes of the instruction word with nibbles a b d e
Ins(a, b, d, e) == << a * 16 + b, d * 16 + e >>

\* the logical keys the host presses and releases
InputKeys == {1, 8, 9}
\* key transitions seen by one Keypad::read
MaxKeyEvents == 2
\* the bytes rand::thread_rng().gen() returns
RandomBytes == {0, 165, 255}
\* the steps of the wall clock between two calls, in milliseconds
TickSteps == {5, TimerPeriodMs}

\* the register indices, register values and ALU forms (8xy_) of the programs
TestRegs == {0, 1, 15}
TestBytes == {0, 1, 2, 255}
TestFlags == {0, 1}
AluForms == {4, 5, 6, 7, 14}
\* the positions, heights and rows of the sprites drawn
TestColumns == {0, 62, 63, 255}
TestRows == {0, 31, 33}
TestHeights == {1, 2}
TestSprites == { << 192, 129 >>, << 255, 1 >>, << 0, 129 >> }
\* how far right of the sprite the draw that fills the framebuffer first is
TestShifts == {0, 1, 16}

\* 6xkk: register x <- byte v
Set(x, v) == Ins(6, x, v \div 16, v % 16)

\* a program that waits for a key, again and again
RomsBus == { Ins(15, 0, 0, 10) \o Ins(1, 2, 0, 0) }

\* programs of one ALU instruction on two registers, after the flag
\* register and the two registers are set
RomsAlu ==
    { Set(15, f) \o Set(x, va) \o Set(y, vb) \o Ins(8, x, y, form) :
        f \in TestFlags, x \in TestRegs, y \in TestRegs,
        va \in TestBytes, vb \in TestBytes, form \in AluForms }

\* programs that draw the sprite at (V2, V1), set the flag register, draw the
\* sprite twice at (V0, V1) and clear the display; the sprite is at 0x214
RomsSprite ==
    { Set(0, vx) \o Set(1, vy) \o Set(2, (vx + s) % U8) \o Ins(10, 2, 1, 4)
        \o Ins(13, 2, 1, h) \o Set(15, f) \o Ins(13, 0, 1, h) \o Ins(13, 0, 1, h)
        \o Ins(0, 0, 14, 0) \o Ins(0, 0, 0, 0) \o sprite :
        vx \in TestColumns, vy \in TestRows, s \in TestShifts, f \in TestFlags,
        h \in TestHeights, sprite \in TestSprites }

\* a subroutine that draws an 8 x 8 block of set bits (at 0x21A) at every
\* eighth column and row, which sets all the cells, and clears the display
RomFill ==
    Ins(2, 2, 0, 4) \o Ins(0, 0, 0, 0)
    \o Ins(10, 2, 1, 10) \o Ins(13, 0, 1, 8) \o Ins(7, 0, 0, 8)
    \o Ins(3, 0, 4, 0) \o Ins(1, 2, 0, 6) \o Set(0, 0) \o Ins(7, 1, 0, 8)
    \o Ins(3, 1, 2, 0) \o Ins(1, 2, 0, 6) \o Ins(0, 0, 14, 0) \o Ins(0, 0, 14, 14)
    \o << 255, 255, 255, 255, 255, 255, 255, 255 >>

RomsDraw == RomsSprite \cup { RomFill }

\* the register values, the last registers and the index pointers of the
\* programs that store and load registers: x and p with p + x < 4096 (the
\* program itself at 0x200, 0x300, the last 16 bytes at 0xFF0, the last byte
\* at 0xFFF) and with p + x >= 4096
TransferValues == {0, 1, 255}
TransferRanges ==
    { << 0, 512 >>, << 1, 512 >>, << 0, 768 >>, << 1, 768 >>, << 15, 768 >>,
      << 15, 4080 >>, << 0, 4095 >>, << 1, 4095 >>, << 15, 4081 >> }
\* the instructions between the store and the load: none, or registers 0 and
\* 15 are set again
TransferBetween(a) == { << >>, Set(0, (a + 1) % U8) \o Set(15, 7) }

\* programs that set registers 0, 1 and 15 and the index pointer, store the
\* registers 0..x and load them again
RomsTransfer ==
    { Set(0, a) \o Set(1, b) \o Set(15, b) \o Ins(10, xp[2] \div 256, (xp[2] \div 16) % 16, xp[2] % 16)
        \o Ins(15, xp[1], 5, 5) \o between \o Ins(15, xp[1], 6, 5) \o Ins(0, 0, 0, 0) :
        a \in TransferValues, b \in TransferValues, xp \in TransferRanges,
        between \in UNION { TransferBetween(v) : v \in TransferValues } }

\* programs that set register x to v and point the index pointer at the
\* sprite of the digit in register x
RomsDigit ==
    { Set(x, v) \o Ins(15, x, 2, 9) \o Ins(0, 0, 0, 0) :
        x \in {0, 15}, v \in 0 .. U8 - 1 }

\* the second nibbles of the one-word programs
WordSeconds == {0, 1, 15}

\* programs of one word: every first, third and fourth nibble
RomsWords ==
    { Ins(a, b, d, e) : a \in 0 .. 15, b \in WordSeconds, d \in 0 .. 15, e \in 0 .. 15 }

\* a program that sets the delay timer to 1 and then, again and again, draws
\* a sprite (at 0x212), adds 0 to V1, draws the sprite twice more and clears
\* the display
RomsScreen ==
    { Set(0, 1) \o Ins(15, 0, 1, 5) \o Ins(10, 2, 1, 2)
        \o Ins(13, 0, 0, 1) \o Ins(7, 1, 0, 0) \o Ins(13, 0, 0, 1) \o Ins(13, 0, 0, 1)
        \o Ins(0, 0, 14, 0) \o Ins(1, 2, 0, 6) \o << 192 >> }

\* programs that set the flag register and register r and add a byte to
\* register r
RomsAdd ==
    { Set(15, f) \o Set(r, a) \o Ins(7, r, kk \div 16, kk % 16) \o Ins(0, 0, 0, 0) :
        f \in TestFlags, r \in TestRegs, a \in TestBytes, kk \in TestBytes }

\* the registers and index pointers of the programs that store digits: the
\* program itself (0x200), the last three bytes of the memory (0xFFD) and the
\* last two (0xFFE)
BcdRegs == {0, 14}
BcdPointers == {512, 4093, 4094}

\* programs that set register x to v, the index pointer to p and store the
\* digits of register x
RomsBcd ==
    { Set(x, v) \o Ins(10, p \div 256, (p \div 16) % 16, p % 16)
        \o Ins(15, x, 3, 3) \o Ins(0, 0, 0, 0) :
        x \in BcdRegs, v \in 0 .. U8 - 1, p \in BcdPointers }

\* the words that end the programs of calls: a return, the halt word and
\* words of no pattern (5xy1, 8xy8, 9xy1, 00E1, Ex00, Fx00, 0nnn, Fxkk)
TestLastWords ==
    { Ins(0, 0, 14, 14), Ins(0, 0, 0, 0), Ins(5, 0, 1, 1), Ins(8, 0, 0, 8),
      Ins(9, 0, 0, 1), Ins(0, 0, 14, 1), Ins(14, 0, 0, 0), Ins(15, 0, 0, 0),
      Ins(0, 1, 2, 3), Ins(15, 15, 15, 15) }

\* programs of calls: the subroutine at 0x206 is called twice and calls the
\* subroutine at 0x20A; then the last word, with the call stack empty; and a
\* subroutine that calls itself
RomsFlow ==
    { Ins(2, 2, 0, 6) \o Ins(2, 2, 0, 6) \o last \o Ins(2, 2, 0, 10)
        \o Ins(0, 0, 14, 14) \o Ins(0, 0, 14, 14) : last \in TestLastWords }
    \cup { Ins(2, 2, 0, 0) }

\* programs that set both timers from V0 and then loop
RomsTimers ==
    { Set(0, v) \o Ins(15, 0, 1, 5) \o Ins(15, 0, 1, 8) \o Ins(1, 2, 0, 6) :
        v \in {0, 1, 2} }

\* programs about the keypad: wait for a key, skip on a key
RomsKeys ==
    { Ins(15, x, 0, 10) \o Ins(1, 2, 0, 0) : x \in {0, 1} }
    \cup { Ins(6, 0, 0, k) \o Ins(14, 0, 9, 14) \o Ins(1, 2, 0, 2) : k \in {1, 8, 9} }
    \cup { Ins(6, 0, 0, k) \o Ins(14, 0, 10, 1) \o Ins(1, 2, 0, 2) : k \in {1, 8, 9} }

(* ------------------------------------------------------------------ *)
(* The host: construction, and the calls it makes                      *)
(* ------------------------------------------------------------------ *)
\* CPU::new() and load_rom(rom) for a rom of Roms, under either build profile
InitWith(Roms) ==
    /\ \E rom \in Roms : cpu = load_rom(CPU_new(0), rom)
    /\ now = 0
    /\ overflow_checks \in BOOLEAN
    /\ fault = "none"
    /\ memory_opcode = -1
    /\ sends = 0

\* one call of Keypad::read on the keypad bus, with these keys pressed and
\* these keys released since the last call
KeypadRead(pressed, released) ==
    LET n == Cardinality(pressed) + Cardinality(released)
    IN /\ fault = "none"
       /\ n >= 1
       /\ n <= MaxKeyEvents
       /\ Len(cpu.buses[1].signals) + n <= MaxSignals
       /\ cpu' = [cpu EXCEPT !.buses[1] = Keypad_read(pressed, released, @)]
       /\ sends' = sends + n
       /\ UNCHANGED << now, overflow_checks, fault, memory_opcode >>

\* the bytes the random generator can return in the next cycle(): it is
\* called by the Cxkk handler alone
random_bytes(c) ==
    IF c.pc + 1 < MemorySize /\ Shr(Get(c.memory, c.pc), 4) = 12
    THEN RandomBytes ELSE {0}

\* one call of cycle()
Cycle ==
    /\ fault = "none"
    /\ \E random_number \in random_bytes(cpu) :
          LET f == read_memory_opcode(cpu)
              t == cycle_to_timers(cpu, random_number)
              r == cycle(cpu, random_number)
              after == IF IsPanic(r) THEN r.cpu ELSE r
          IN /\ Len(after.stack) <= MaxStack
             /\ cpu' = after
             /\ fault' = IF IsPanic(r) THEN r.panic ELSE "none"
             /\ memory_opcode' = IF IsPanic(f) THEN memory_opcode ELSE f.opcode
             /\ sends' = IF IsPanic(t) THEN sends ELSE 0
    /\ UNCHANGED << now, overflow_checks >>

\* the wall clock advances between two calls
Tick ==
    /\ fault = "none"
    /\ \E d \in TickSteps :
          /\ now + d <= MaxTime
          /\ now' = now + d
    /\ UNCHANGED << cpu, overflow_checks, fault, memory_opcode, sends >>

Init == InitWith(RomsKeys)

Next ==
    \/ Cycle
    \/ \E pressed \in SUBSET InputKeys, released \in SUBSET InputKeys :
          KeypadRead(pressed, released)

Spec == Init /\ [][Next]_vars

\* the keypad bus alone, under a program that waits for keys
InitBus == InitWith(RomsBus)

SpecBus == InitBus /\ [][Next]_vars

\* the ALU programs; the host sends no key
InitAlu == InitWith(RomsAlu)

NextAlu == Cycle

SpecAlu == InitAlu /\ [][NextAlu]_vars

\* the drawing programs; the host sends no key
InitDraw == InitWith(RomsDraw)

NextDraw == Cycle

SpecDraw == InitDraw /\ [][NextDraw]_vars

\* the programs that store and load registers; the host sends no key
InitTransfer == InitWith(RomsTransfer)

NextTransfer == Cycle

SpecTransfer == InitTransfer /\ [][NextTransfer]_vars

\* the programs that point at a digit sprite; the host sends no key
InitDigit == InitWith(RomsDigit)

NextDigit == Cycle

SpecDigit == InitDigit /\ [][NextDigit]_vars

\* the one-word programs; the host sends no key
InitWords == InitWith(RomsWords)

NextWords == Cycle

SpecWords == InitWords /\ [][NextWords]_vars

\* the program that draws and clears, under a wall clock that advances and
\* a host that presses and releases key 1
InitScreen == InitWith(RomsScreen)

NextScreen ==
    \/ Cycle
    \/ Tick
    \/ KeypadRead({1}, {})
    \/ KeypadRead({}, {1})

SpecScreen == InitScreen /\ [][NextScreen]_vars

\* the programs that add a byte to a register; the host sends no key
InitAdd == InitWith(RomsAdd)

NextAdd == Cycle

SpecAdd == InitAdd /\ [][NextAdd]_vars

\* the programs that store digits; the host sends no key
InitBcd == InitWith(RomsBcd)

NextBcd == Cycle

SpecBcd == InitBcd /\ [][NextBcd]_vars

\* the programs of calls and returns; the host sends no key
InitFlow == InitWith(RomsFlow)

NextFlow == Cycle

SpecFlow == InitFlow /\ [][NextFlow]_vars

\* the timer programs under a wall clock that advances; the host sends no key
InitTimers == InitWith(RomsTimers)

NextTimers == Cycle \/ Tick

SpecTimers == InitTimers /\ [][NextTimers]_vars

(* ------------------------------------------------------------------ *)
(* Vocabulary of the properties                                        *)
(* ------------------------------------------------------------------ *)
\* the keypad bus, and the pairs pending on it, oldest first
KeypadBus == cpu.buses[1]
Pending == cpu.buses[1].signals

\* the nibbles of the word the next cycle() fetches
Fetched ==
    LET f == read_memory_opcode(cpu)
    IN IF IsPanic(f) THEN << -1, -1, -1, -1 >> ELSE decompose_opcode(f.opcode)

\* the step is a cycle() that reaches read_keypad_bus: the fetch and the
\* instruction did not panic
Drains ==
    /\ Cycle
    /\ \E random_number \in random_bytes(cpu) :
          ~IsPanic(cycle_to_timers(cpu, random_number))

\* the pairs the next k reads of a bus return, in order
RECURSIVE Reads(_, _)
Reads(bus, k) ==
    IF k = 0 THEN << >>
    ELSE LET r == Bus_read(bus) IN << r.signal >> \o Reads(r.bus, k - 1)

RECURSIVE Reverse(_)
Reverse(seq) == IF Len(seq) = 0 THEN << >> ELSE Reverse(Tail(seq)) \o << Head(seq) >>

\* the keys recorded as pressed in the key-state table of CPU c
PressedKeys(c) == {k \in DOMAIN c.key_registers : c.key_registers[k] = 1}

C3_PendingEventApplied ==
    [][Drains =>
         IF Len(Pending) = 0
         THEN cpu'.key_registers = cpu.key_registers
         ELSE LET event == Pending[Len(Pending)]
              IN event[1] \in 1 .. 9 /\ event[2] \in {0, 1} =>
                    /\ fault' = "none"
                    /\ event[1] \in DOMAIN cpu'.key_registers
                    /\ cpu'.key_registers[event[1]] = event[2]
                    /\ \A k \in DOMAIN cpu.key_registers \ {event[1]} :
                          cpu'.key_registers[k] = cpu.key_registers[k]]_vars

(* ------------------------------------------------------------------ *)
(* C4                                                                  *)
(* ------------------------------------------------------------------ *)
\* C4: Fx0A executed while some key is pressed writes into register x the
\* identifier of a key that is pressed in the table, and the program counter
\* ends the cycle 2 past the instruction.
C4_WaitStoresPressedKey ==
    [][(/\ Cycle
        /\ Fetched[1] = 15 /\ Fetched[3] = 0 /\ Fetched[4] = 10
        /\ PressedKeys(cpu) # {}) =>
           /\ cpu'.registers[Fetched[2]] \in PressedKeys(cpu)
           /\ cpu'.pc = cpu.pc + 2]_vars

(* ------------------------------------------------------------------ *)
(* C5                                                                  *)
(* ------------------------------------------------------------------ *)
\* C5: Fx0A executed while no key is pressed returns to the caller with the
\* program counter where it was at the start of the cycle (so the next cycle
\* executes the same instruction) and with the registers, the memory, the
\* index pointer, the call stack and the framebuffer unchanged.
C5_WaitRewindsAndReturns ==
    [][(/\ Cycle
        /\ Fetched[1] = 15 /\ Fetched[3] = 0 /\ Fetched[4] = 10
        /\ PressedKeys(cpu) = {}) =>
           /\ fault' = "none"
           /\ cpu'.pc = cpu.pc
           /\ cpu'.registers = cpu.registers
           /\ cpu'.memory = cpu.memory
           /\ cpu'.pointer = cpu.pointer
           /\ cpu'.stack = cpu.stack
           /\ cpu'.display = cpu.display]_vars

(* ------------------------------------------------------------------ *)
(* C6                                                                  *)
(* ------------------------------------------------------------------ *)
\* C6: with a key k of 1..9 in register x and no event pending, Ex9E ends
\* the cycle at pc + 4 if key k is pressed and at pc + 2 otherwise, ExA1 at
\* pc + 4 if key k is not pressed and at pc + 2 otherwise; neither faults nor
\* changes a register or the table.
C6_SkipOnKey ==
    [][(/\ Cycle
        /\ Len(Pending) = 0
        /\ Fetched[1] = 14
        /\ << Fetched[3], Fetched[4] >> \in { << 9, 14 >>, << 10, 1 >> }
        /\ cpu.registers[Fetched[2]] \in 1 .. 9) =>
           LET k == cpu.registers[Fetched[2]]
               pressed == k \in PressedKeys(cpu)
               skip == IF Fetched[3] = 9 THEN pressed ELSE ~pressed
           IN /\ fault' = "none"
              /\ cpu'.pc = cpu.pc + (IF skip THEN 4 ELSE 2)
              /\ cpu'.registers = cpu.registers
              /\ cpu'.key_registers = cpu.key_registers]_vars

(* ------------------------------------------------------------------ *)
(* C7                                                                  *)
(* ------------------------------------------------------------------ *)
\* C7: for all x, y in 0..15 and a = Vx, b = Vy, after 8xy4 the flag
\* register is 1 iff a + b > 255 and 0 otherwise, and after 8xy5 it is 1 iff
\* a < b and 0 otherwise, whatever the flag held before.
C7_CarryAndBorrowFlag ==
    [][(Cycle /\ Fetched[1] = 8 /\ Fetched[4] \in {4, 5}) =>
           LET a == cpu.registers[Fetched[2]]
               b == cpu.registers[Fetched[3]]
           IN cpu'.registers[15] =
                  IF Fetched[4] = 4
                  THEN (IF a + b > 255 THEN 1 ELSE 0)
                  ELSE (IF a < b THEN 1 ELSE 0)]_vars

(* ------------------------------------------------------------------ *)
(* C8                                                                  *)
(* ------------------------------------------------------------------ *)
\* C8: 8xy6 sets the flag register to the least-significant bit of v = Vx
\* (v mod 2) and register x (when x is not the flag register) to v shifted
\* right by one bit.
C8_ShiftRightFlagIsLsb ==
    [][(Cycle /\ Fetched[1] = 8 /\ Fetched[4] = 6) =>
           LET v == cpu.registers[Fetched[2]]
           IN /\ cpu'.registers[15] = v % 2
              /\ Fetched[2] # 15 => cpu'.registers[Fetched[2]] = v \div 2]_vars

(* ------------------------------------------------------------------ *)
(* C9                                                                  *)
(* ------------------------------------------------------------------ *)
\* C9: for all x, y and a = Vx, b = Vy, b < a included, 8xy7 completes
\* without trapping, sets register x to (b - a) mod 256 and leaves the flag
\* register unchanged.
C9_ReverseSubtractWraps ==
    [][(Cycle /\ Fetched[1] = 8 /\ Fetched[4] = 7) =>
           LET a == cpu.registers[Fetched[2]]
               b == cpu.registers[Fetched[3]]
           IN /\ fault' = "none"
              /\ cpu'.registers[Fetched[2]] = (b - a) % 256
              /\ Fetched[2] # 15 => cpu'.registers[15] = cpu.registers[15]]_vars

(* ------------------------------------------------------------------ *)
(* C10                                                                 *)
(* ------------------------------------------------------------------ *)
\* the cells a Dxyn toggles when columns and rows wrap independently
WrappedCells(c, vx, vy, n) ==
    { ((vy + r) % HEIGHT) * WIDTH + ((vx + b) % WIDTH) :
        << r, b >> \in { rb \in (0 .. n - 1) \X (0 .. 7) :
            BitAnd(Get(c.memory, c.pointer + rb[1]), Shr(128, rb[2])) # 0 } }

\* C10: Dxyn toggles exactly the cells ((Vy + r) mod 32) * 64 + ((Vx + b)
\* mod 64) of the set bits (r, b) of the sprite, most-significant bit first,
\* so a sprite at column 63 wraps to column 0 of the same row.
C10_DrawWrapsBothAxes ==
    [][(Cycle /\ Fetched[1] = 13 /\ cpu.pointer + Fetched[4] <= MemorySize) =>
           LET vx == cpu.registers[Fetched[2]]
               vy == cpu.registers[Fetched[3]]
           IN /\ fault' = "none"
              /\ { i \in 0 .. WIDTH * HEIGHT - 1 :
                       Get(cpu'.display, i) # Get(cpu.display, i) }
                     = WrappedCells(cpu, vx, vy, Fetched[4])]_vars

(* ------------------------------------------------------------------ *)
(* C11                                                                 *)
(* ------------------------------------------------------------------ *)
\* C11: after Dxyn the flag register is 1 iff at least one cell changed by
\* the draw held 1 before it (and holds 0 after it), and 0 otherwise,
\* whatever the flag register held before the instruction.
C11_FlagIsCollision ==
    [][(Cycle /\ Fetched[1] = 13) =>
           cpu'.registers[15] =
               IF \E i \in DOMAIN cpu.display :
                     Get(cpu.display, i) = 1 /\ Get(cpu'.display, i) = 0
               THEN 1 ELSE 0]_vars

\* C11, witness: a draw has turned some cells off and left others on, and the
\* flag register holds 1.
C11_Witness ==
    /\ memory_opcode \div 4096 = 13
    /\ fault = "none"
    /\ cpu.registers[15] = 1
    /\ DOMAIN cpu.display # {}

(* ------------------------------------------------------------------ *)
(* C12                                                                 *)
(* ------------------------------------------------------------------ *)
\* the next two cycles execute the same Dxyn with the same index pointer, the
\* same sprite bytes and the same position, and neither panics
SameDrawTwice ==
    LET c1 == cycle(cpu, 0)
        x == Fetched[2]
        y == Fetched[3]
    IN /\ Fetched[1] = 13
       /\ ~IsPanic(c1)
       /\ ~IsPanic(read_memory_opcode(c1))
       /\ read_memory_opcode(c1).opcode = read_memory_opcode(cpu).opcode
       /\ c1.pointer = cpu.pointer
       /\ \A r \in 0 .. Fetched[4] - 1 :
             Get(c1.memory, c1.pointer + r) = Get(cpu.memory, cpu.pointer + r)
       /\ c1.registers[x] = cpu.registers[x]
       /\ c1.registers[y] = cpu.registers[y]
       /\ ~IsPanic(cycle(c1, 0))

\* the sprite of the Dxyn fetched next has a set bit
SpriteHasSetBit ==
    \E r \in 0 .. Fetched[4] - 1 : Get(cpu.memory, cpu.pointer + r) # 0

\* C12, as stated: the same Dxyn executed twice in a row leaves the
\* framebuffer as it was before the first draw, and after the second draw
\* the flag register is 1 iff the sprite has a set bit.
C12_SecondDrawFlagsAnySprite ==
    SameDrawTwice =>
        LET c2 == cycle(cycle(cpu, 0), 0)
        IN /\ \A i \in DOMAIN c2.display \cup DOMAIN cpu.display :
                 Get(c2.display, i) = Get(cpu.display, i)
           /\ c2.registers[15] = IF SpriteHasSetBit THEN 1 ELSE 0

\* C12, amended: the same Dxyn executed twice in a row leaves the framebuffer
\* as it was before the first draw, and after the second draw the flag
\* register is 1 iff the first draw turned at least one cell on, that is iff
\* a cell under a set bit of the sprite held 0 before the first draw.
C12_DrawTwiceRestores ==
    SameDrawTwice =>
        LET c1 == cycle(cpu, 0)
            c2 == cycle(c1, 0)
        IN /\ \A i \in DOMAIN c2.display \cup DOMAIN cpu.display :
                 Get(c2.display, i) = Get(cpu.display, i)
           /\ c2.registers[15] =
                 IF \E i \in DOMAIN c1.display :
                       Get(cpu.display, i) = 0 /\ Get(c1.display, i) = 1
                 THEN 1 ELSE 0

\* C12, witness: the two words before the program counter are the same Dxyn,
\* the second of them was fetched last, its sprite has a set bit and the flag
\* register holds 0: every cell of the sprite was set before the first draw.
C12_Witness ==
    /\ memory_opcode \div 4096 = 13
    /\ fault = "none"
    /\ cpu.pc >= 516
    /\ Get(cpu.memory, cpu.pc - 4) * 256 + Get(cpu.memory, cpu.pc - 3) = memory_opcode
    /\ Get(cpu.memory, cpu.pc - 2) * 256 + Get(cpu.memory, cpu.pc - 1) = memory_opcode
    /\ Get(cpu.memory, cpu.pointer) # 0
    /\ cpu.registers[15] = 0
    /\ DOMAIN cpu.display # {}

(* ------------------------------------------------------------------ *)
(* C13                                                                 *)
(* ------------------------------------------------------------------ *)
\* C13: 00E0 sets all 2048 cells of the framebuffer to 0 whatever they held,
\* changes no register, memory byte, index pointer or call stack entry, and
\* advances the program counter by exactly 2.
C13_ClearDisplay ==
    [][(Cycle /\ Fetched = << 0, 0, 14, 0 >>) =>
           /\ \A i \in 0 .. WIDTH * HEIGHT - 1 : Get(cpu'.display, i) = 0
           /\ cpu'.registers = cpu.registers
           /\ cpu'.memory = cpu.memory
           /\ cpu'.pointer = cpu.pointer
           /\ cpu'.stack = cpu.stack
           /\ cpu'.pc = cpu.pc + 2]_vars

\* every cell of the framebuffer holds 1 and the next word is 00E0
AllCellsSet ==
    /\ Fetched = << 0, 0, 14, 0 >>
    /\ \A i \in 0 .. WIDTH * HEIGHT - 1 : Get(cpu.display, i) = 1

\* C13, witness: 00E0 was executed in a subroutine, after the loop that drew
\* the block at each of the 8 x 4 positions (it ends with V1 = 32), and no cell
\* is set.
C13_Witness ==
    /\ memory_opcode = 224
    /\ fault = "none"
    /\ Len(cpu.stack) = 1
    /\ cpu.registers[1] = HEIGHT
    /\ DOMAIN cpu.display = {}

(* ------------------------------------------------------------------ *)
(* C14                                                                 *)
(* ------------------------------------------------------------------ *)
\* the word fetched next is 00EE with the call stack empty, or 0x0000, or a
\* word of no pattern of the table
FatalWord ==
    \/ Fetched = << 0, 0, 14, 14 >> /\ Len(cpu.stack) = 0
    \/ Fetched = << 0, 0, 0, 0 >>
    \/ Fetched[1] # -1 /\ ~handler_pattern(Fetched)

\* C14: a cycle that fetches 00EE with the call stack empty, the word 0x0000
\* or a word of no pattern ends in a panic, which the caller of cycle() gets
\* (Cycle is not taken again once fault is set); it is never a silent no-op.
C14_FatalConditions ==
    [][(Cycle /\ FatalWord) =>
           /\ fault' # "none"
           /\ fault' =
                 IF Fetched = << 0, 0, 14, 14 >> THEN "unwrap on None"
                 ELSE IF Fetched = << 0, 0, 0, 0 >> THEN "Done"
                 ELSE "not yet implemented: Unknown instruction"]_vars

\* C14, witness: a 00EE fetched with the call stack empty, after calls and
\* returns, has ended the interpretation.
C14_Witness ==
    /\ memory_opcode = 238
    /\ fault = "unwrap on None"
    /\ Len(cpu.stack) = 0

(* ------------------------------------------------------------------ *)
(* C15                                                                 *)
(* ------------------------------------------------------------------ *)
\* C15: 00EE on an empty call stack, the word 0x0000 and a word of no
\* pattern are the only ways cycle() can fail: a cycle that fetches a word of
\* any other pattern completes without fault, whatever the registers, the
\* index pointer, the program counter and the key-state table hold.
C15_OnlyThreeFatalConditions ==
    [][(Cycle /\ handler_pattern(Fetched) /\ ~FatalWord) => fault' = "none"]_vars

(* ------------------------------------------------------------------ *)
(* C16                                                                 *)
(* ------------------------------------------------------------------ *)
\* C16: for v = Vx and an index pointer I with I + 2 < 4096, Fx33 writes
\* Memory[I] = v div 100, Memory[I+1] = (v div 10) mod 10 and Memory[I+2] =
\* v mod 10, and changes no other memory byte, no register and not the index
\* pointer.
C16_StoreBcd ==
    [][(/\ Cycle
        /\ Fetched[1] = 15 /\ Fetched[3] = 3 /\ Fetched[4] = 3
        /\ cpu.pointer + 2 < MemorySize) =>
           LET v == cpu.registers[Fetched[2]]
               I == cpu.pointer
           IN /\ fault' = "none"
              /\ Get(cpu'.memory, I) = v \div 100
              /\ Get(cpu'.memory, I + 1) = (v \div 10) % 10
              /\ Get(cpu'.memory, I + 2) = v % 10
              /\ \A m \in (DOMAIN cpu.memory \cup DOMAIN cpu'.memory) \ (I .. I + 2) :
                    Get(cpu'.memory, m) = Get(cpu.memory, m)
              /\ cpu'.registers = cpu.registers
              /\ cpu'.pointer = cpu.pointer]_vars

\* C16, witness: Fx33 has stored the digits 2, 5, 5 of 255 in the last three
\* bytes of the memory.
C16_Witness ==
    /\ memory_opcode \div 4096 = 15
    /\ memory_opcode % 256 = 51
    /\ fault = "none"
    /\ cpu.pointer = MemorySize - 3
    /\ Get(cpu.memory, cpu.pointer) = 2
    /\ Get(cpu.memory, cpu.pointer + 1) = 5
    /\ Get(cpu.memory, cpu.pointer + 2) = 5

(* ------------------------------------------------------------------ *)
(* C17                                                                 *)
(* ------------------------------------------------------------------ *)
\* the step is a cycle() that executes neither Fx15 nor Fx18
CycleWithoutTimerSet ==
    /\ Cycle
    /\ ~(Fetched[1] = 15 /\ Fetched[3] = 1 /\ Fetched[4] \in {5, 8})

\* a timer that holds `timer` and was last decremented at `timestamp` is
\* left at timer_1, timestamp_1 by a cycle as C17 says: it changes only if
\* the period has elapsed since the timestamp; then a timer above 0 decreases
\* by exactly 1 and its timestamp becomes now; a timer at 0 stays at 0
TimerStep(timer, timestamp, timer_1, timestamp_1) ==
    LET due == now - timestamp >= TimerPeriodMs
    IN /\ timer_1 # timer => due
       /\ (due /\ timer > 0) => (timer_1 = timer - 1 /\ timestamp_1 = now)
       /\ ~due => (timer_1 = timer /\ timestamp_1 = timestamp)
       /\ timer = 0 => timer_1 = 0
       /\ timer_1 >= 0

\* C17: for the delay timer and for the sound timer, in a cycle that executes
\* neither Fx15 nor Fx18 the timer changes only if the time elapsed since its
\* timestamp has reached the period; it then decreases by exactly 1 and its
\* timestamp is reset to now; a timer at 0 stays at 0.
C17_TimerDecrement ==
    [][CycleWithoutTimerSet =>
           /\ TimerStep(cpu.delay_timer, cpu.delay_timer_timestamp,
                        cpu'.delay_timer, cpu'.delay_timer_timestamp)
           /\ TimerStep(cpu.sound_timer, cpu.sound_timer_timestamp,
                        cpu'.sound_timer, cpu'.sound_timer_timestamp)]_vars

\* C17, witness: both timers were set to 2 and a cycle of the loop that
\* follows, one period later, has brought both to 1 and their timestamps to
\* now.
C17_Witness ==
    /\ memory_opcode \div 4096 = 1
    /\ cpu.registers[0] = 2
    /\ cpu.delay_timer = 1
    /\ cpu.sound_timer = 1
    /\ now >= TimerPeriodMs
    /\ cpu.delay_timer_timestamp = now
    /\ cpu.sound_timer_timestamp = now

(* ------------------------------------------------------------------ *)
(* C18                                                                 *)
(* ------------------------------------------------------------------ *)
\* the value of a timer that holds `timer`, last decremented at `timestamp`,
\* once every whole period elapsed since then has taken 1 from it
Decayed(timer, timestamp) ==
    saturating_sub(timer, (now - timestamp) \div TimerPeriodMs)

\* C18: the decay does not depend on the spacing of the calls: a cycle that
\* executes neither Fx15 nor Fx18 leaves a timer above 0 decremented once for
\* every whole period elapsed since its last decrement (capped at its value),
\* whether the calls are faster or slower than the period.
C18_DecayIndependentOfCallRate ==
    [][CycleWithoutTimerSet =>
           /\ cpu.delay_timer > 0 =>
                 cpu'.delay_timer = Decayed(cpu.delay_timer, cpu.delay_timer_timestamp)
           /\ cpu.sound_timer > 0 =>
                 cpu'.sound_timer = Decayed(cpu.sound_timer, cpu.sound_timer_timestamp)]_vars

(* ------------------------------------------------------------------ *)
(* C19                                                                 *)
(* ------------------------------------------------------------------ *)
\* C19: for every register r and all bytes a = Vr and kk, after 7rkk
\* register r holds (a + kk) mod 256 and no carry is recorded: the flag
\* register (when it is not register r itself) and every other register are
\* unchanged, even when a + kk > 255.
C19_AddByteWraps ==
    [][(Cycle /\ Fetched[1] = 7) =>
           LET r == Fetched[2]
               a == cpu.registers[r]
               kk == Fetched[3] * 16 + Fetched[4]
           IN /\ fault' = "none"
              /\ cpu'.registers[r] = (a + kk) % 256
              /\ \A q \in DOMAIN cpu.registers \ {r} :
                    cpu'.registers[q] = cpu.registers[q]]_vars

\* C19, witness: 7r02 has been executed on a register r (not the flag
\* register) that held 255: it holds 1 and the flag register still holds 0.
C19_Witness ==
    /\ memory_opcode \div 4096 = 7
    /\ memory_opcode % 256 = 2
    /\ (memory_opcode \div 256) % 16 # 15
    /\ cpu.registers[(memory_opcode \div 256) % 16] = 1
    /\ cpu.registers[15] = 0
    /\ fault = "none"

(* ------------------------------------------------------------------ *)
(* C20                                                                 *)
(* ------------------------------------------------------------------ *)
\* the CPU c after the cycles that bring its call stack back to `depth`
\* entries, followed for at most `steps` cycles; a panic if a cycle panics,
\* and c itself if the stack is still deeper after `steps` cycles
RECURSIVE RunToDepth(_, _, _)
RunToDepth(c, depth, steps) ==
    IF Len(c.stack) <= depth \/ steps = 0 THEN c
    ELSE LET r == cycle(c, 0)
         IN IF IsPanic(r) THEN r ELSE RunToDepth(r, depth, steps - 1)

\* the address following the call whose return address is entry i of the
\* call stack: the word two bytes before it is a 2nnn
FollowsCall(c, i) ==
    /\ c.stack[i] >= 2
    /\ Shr(Get(c.memory, c.stack[i] - 2), 4) = 2

\* C20: 2nnn fetched at address a pushes a + 2 and sets the program counter
\* to nnn; 00EE sets the program counter to the last address pushed and not
\* yet popped, and removes it; so when the calls nested in a call have all
\* returned, the program counter is the address following that call and the
\* call stack is as it was before it.
C20_CallReturnRoundTrip ==
    /\ [][(Cycle /\ Fetched[1] = 2) =>
              /\ cpu'.stack = Append(cpu.stack, cpu.pc + 2)
              /\ cpu'.pc = Fetched[2] * 256 + Fetched[3] * 16 + Fetched[4]]_vars
    /\ [][(Cycle /\ Fetched = << 0, 0, 14, 14 >> /\ Len(cpu.stack) > 0) =>
              /\ cpu'.pc = cpu.stack[Len(cpu.stack)]
              /\ cpu'.stack = SubSeq(cpu.stack, 1, Len(cpu.stack) - 1)]_vars
    /\ [](\A i \in 1 .. Len(cpu.stack) : FollowsCall(cpu, i))
    /\ [](Fetched[1] = 2 =>
             LET called == cycle(cpu, 0)
                 back == RunToDepth(called, Len(cpu.stack), MaxReturnSteps)
             IN (~IsPanic(back) /\ Len(back.stack) = Len(cpu.stack)) =>
                    /\ back.pc = cpu.pc + 2
                    /\ back.stack = cpu.stack)

\* C20, witness: a 00EE has emptied the call stack and the program counter
\* follows a call of a subroutine that itself starts with a call.
C20_Witness ==
    /\ memory_opcode = 238
    /\ fault = "none"
    /\ Len(cpu.stack) = 0
    /\ cpu.pc >= 2
    /\ Shr(Get(cpu.memory, cpu.pc - 2), 4) = 2
    /\ LET nnn == (Get(cpu.memory, cpu.pc - 2) % 16) * 256 + Get(cpu.memory, cpu.pc - 1)
       IN Shr(Get(cpu.memory, nnn), 4) = 2

(* ------------------------------------------------------------------ *)
(* C21                                                                 *)
(* ------------------------------------------------------------------ *)
\* C21: for x in 0..15 and an index pointer I with I + x < 4096, Fx55 makes
\* Memory[I + i] = Vi for every i in 0..x and changes no other memory byte, no
\* register and not the index pointer; Fx65 makes Vi = Memory[I + i] for every
\* i in 0..x and changes no register above x, no memory byte and not the index
\* pointer; so Fx65 right after Fx55 with the same x leaves every register
\* unchanged.
C21_StoreAndLoadRegisters ==
    [][(/\ Cycle
        /\ Fetched[1] = 15
        /\ << Fetched[3], Fetched[4] >> \in { << 5, 5 >>, << 6, 5 >> }
        /\ cpu.pointer + Fetched[2] < MemorySize) =>
           LET x == Fetched[2]
               I == cpu.pointer
           IN /\ fault' = "none"
              /\ cpu'.pointer = cpu.pointer
              /\ IF Fetched[3] = 5
                 THEN /\ \A i \in 0 .. x : Get(cpu'.memory, I + i) = cpu.registers[i]
                      /\ \A m \in (DOMAIN cpu.memory \cup DOMAIN cpu'.memory) \ (I .. I + x) :
                            Get(cpu'.memory, m) = Get(cpu.memory, m)
                      /\ cpu'.registers = cpu.registers
                 ELSE /\ \A i \in 0 .. x : cpu'.registers[i] = Get(cpu.memory, I + i)
                      /\ \A r \in x + 1 .. RegisterCount - 1 :
                            cpu'.registers[r] = cpu.registers[r]
                      /\ cpu'.memory = cpu.memory
                      /\ memory_opcode = 15 * 4096 + x * 256 + 5 * 16 + 5 =>
                            cpu'.registers = cpu.registers]_vars

\* C21, witness: Fx65 has loaded the 16 registers from the last 16 bytes of
\* the memory, where an Fx55 had stored them before registers 0 and 15 were
\* set to other values.
C21_Witness ==
    /\ memory_opcode = 15 * 4096 + 15 * 256 + 6 * 16 + 5
    /\ fault = "none"
    /\ cpu.pointer = MemorySize - RegisterCount
    /\ cpu.registers[0] = 255
    /\ cpu.registers[15] = 1
    /\ \A i \in 0 .. RegisterCount - 1 : cpu.registers[i] = Get(cpu.memory, cpu.pointer + i)
    /\ Get(cpu.memory, cpu.pc - 4) = 111

(* ------------------------------------------------------------------ *)
(* C22                                                                 *)
(* ------------------------------------------------------------------ *)
\* C22: for every register x and value v = Vx, Fx29 completes without fault
\* and sets the index pointer to v * 5 computed on 16 bits (260 for v = 52),
\* and leaves all registers unchanged.
C22_PointerToSprite ==
    [][(Cycle /\ Fetched[1] = 15 /\ Fetched[3] = 2 /\ Fetched[4] = 9) =>
           /\ fault' = "none"
           /\ cpu'.pointer = cpu.registers[Fetched[2]] * 5
           /\ cpu'.registers = cpu.registers]_vars

(* ------------------------------------------------------------------ *)
(* C23                                                                 *)
(* ------------------------------------------------------------------ *)
\* the arms whose pattern the word with nibbles n matches
MatchingArms(n) == { k \in 1 .. Len(arms) : arm_matches(k, n) }

\* over all 65536 words: no word matches two arms, 0x0000 matches the halt
\* arm alone, and the words that match an arm with a handler are those of
\* handler_pattern
TableUnambiguous ==
    /\ \A a \in 0 .. 15, b \in 0 .. 15, d \in 0 .. 15, e \in 0 .. 15 :
          LET n == << a, b, d, e >>
          IN /\ Cardinality(MatchingArms(n)) <= 1
             /\ handler_pattern(n) <=> (MatchingArms(n) \ {Len(arms)} # {})
    /\ MatchingArms(<< 0, 0, 0, 0 >>) = {Len(arms)}

\* C23: dispatch is unambiguous and complete.  No word matches two arms (the
\* table does not depend on the state: it is evaluated over the 65536 words
\* where the program is the halt word and has not started), so the order of
\* the arms does not matter; a cycle runs the right-hand side of the one arm
\* its word matches, 0x0000 reaches the halt arm, and a word is an unknown
\* instruction iff it matches no arm.
C23_DispatchUnambiguous ==
    /\ []((memory_opcode = -1 /\ Fetched = << 0, 0, 0, 0 >>) => TableUnambiguous)
    /\ [][(Cycle /\ Fetched[1] # -1) =>
              LET n == Fetched
                  opcode == read_memory_opcode(cpu).opcode
                  c1 == pc_add(cpu, 2)
              IN /\ Cardinality(MatchingArms(n)) <= 1
                 /\ \A k \in MatchingArms(n), random_number \in random_bytes(cpu) :
                       execute(c1, opcode, random_number)
                           = arm_handler(c1, k, n, random_number)
                 /\ n = << 0, 0, 0, 0 >> => fault' = "Done"
                 /\ (fault' = "not yet implemented: Unknown instruction")
                        <=> (MatchingArms(n) = {})]_vars

\* C23, witness: a word 5xy1, which matches no arm, has ended the
\* interpretation as an unknown instruction.
C23_Witness ==
    /\ memory_opcode \div 4096 = 5
    /\ memory_opcode % 16 = 1
    /\ fault = "not yet implemented: Unknown instruction"

(* ------------------------------------------------------------------ *)
(* C24                                                                 *)
(* ------------------------------------------------------------------ *)
\* C24: every cell of the framebuffer holds 0 or 1, and the framebuffer is
\* changed only by a cycle that executes Dxyn, which toggles cells, or 00E0,
\* which zeroes them: a cycle that executes another instruction, with its
\* timer update and its drain of the key events, leaves every cell as it was,
\* and so do the clock and the keypad between the cycles.
C24_FramebufferCells ==
    /\ [](/\ DOMAIN cpu.display \subseteq 0 .. WIDTH * HEIGHT - 1
          /\ \A i \in DOMAIN cpu.display : cpu.display[i] \in {0, 1})
    /\ [][cpu'.display # cpu.display =>
              /\ Cycle
              /\ Fetched[1] = 13 \/ Fetched = << 0, 0, 14, 0 >>
              /\ Fetched[1] = 13 =>
                    \A i \in DOMAIN cpu.display \cup DOMAIN cpu'.display :
                       Get(cpu'.display, i) \in
                           { Get(cpu.display, i), 1 - Get(cpu.display, i) }
              /\ Fetched = << 0, 0, 14, 0 >> => DOMAIN cpu'.display = {}]_vars

\* C24, witness: with cells set, a cycle that executed 7100 has left the
\* delay timer decremented at the current time and key 1 recorded as pressed.
C24_Witness ==
    /\ memory_opcode = 7 * 4096 + 256
    /\ fault = "none"
    /\ DOMAIN cpu.display # {}
    /\ cpu.key_registers[1] = 1
    /\ cpu.delay_timer = 0
    /\ cpu.registers[0] = 1
    /\ cpu.delay_timer_timestamp = now
    /\ now >= TimerPeriodMs

(* ------------------------------------------------------------------ *)
(* C25                                                                 *)
(* ------------------------------------------------------------------ *)
\* the step is a cycle() that executes Fx0A with no key pressed in the table
\* while the event the drain takes next is the press of key k
WaitWithPressPending(k) ==
    /\ Cycle
    /\ Fetched[1] = 15 /\ Fetched[3] = 0 /\ Fetched[4] = 10
    /\ PressedKeys(cpu) = {}
    /\ Len(Pending) >= 1
    /\ Pending[Len(Pending)] = << k, 1 >>

\* C25, as stated: the cycle drains the channel before Fx0A checks the table,
\* so a cycle that executes Fx0A with no key pressed and the press of key k
\* pending sees key k pressed and completes the wait: it does not rewind the
\* program counter.
C25_DrainBeforeWait ==
    [][\A k \in 1 .. 8 : WaitWithPressPending(k) => cpu'.pc = cpu.pc + 2]_vars

\* C25, amended: the cycle drains the channel after the instruction.  A cycle
\* that executes Fx0A with no key pressed and the press of key k (1..8)
\* pending does not see the key: it rewinds the program counter and changes
\* no register, and its drain then records key k as pressed; the next cycle
\* executes the same Fx0A and completes the wait.  For k = 9 the drain panics.
C25_DrainAfterWait ==
    [][/\ \A k \in 1 .. 8 : WaitWithPressPending(k) =>
             /\ fault' = "none"
             /\ cpu'.pc = cpu.pc
             /\ cpu'.registers = cpu.registers
             /\ PressedKeys(cpu') = {k}
             /\ LET next == cycle(cpu', 0)
                IN (IF IsPanic(next) THEN next.cpu ELSE next).pc = cpu.pc + 2
       /\ WaitWithPressPending(9) => fault' # "none"]_vars

\* C25, witness: a cycle has executed Fx0A and rewound the program counter
\* to it, and its drain has recorded a key as pressed.
C25_Witness ==
    /\ memory_opcode \div 4096 = 15
    /\ memory_opcode % 256 = 10
    /\ fault = "none"
    /\ PressedKeys(cpu) # {}
    /\ Get(cpu.memory, cpu.pc) * 256 + Get(cpu.memory, cpu.pc + 1) = memory_opcode

(* ------------------------------------------------------------------ *)
(* C26                                                                 *)
(* ------------------------------------------------------------------ *)
\* C26: right after a cycle that executes 8xy4, 8xy5, 8xy6, 8xyE or Dxyn,
\* for every x and y (x = 15 included) and every register content, the flag
\* register holds 0 or 1.
C26_FlagIsOneBit ==
    [][(/\ Cycle
        /\ \/ Fetched[1] = 8 /\ Fetched[4] \in {4, 5, 6, 14}
           \/ Fetched[1] = 13) =>
           cpu'.registers[15] \in {0, 1}]_vars

(* ------------------------------------------------------------------ *)
(* C27                                                                 *)
(* ------------------------------------------------------------------ *)
\* the CPU c after the cycles that empty its keypad bus, with no further
\* send: one event is taken per cycle; a panic if a cycle panics
RECURSIVE Drained(_)
Drained(c) ==
    IF Len(c.buses[1].signals) = 0 THEN c
    ELSE LET r == cycle(c, 0)
         IN IF IsPanic(r) THEN r ELSE Drained(r)

\* the state of the last event sent for key k among the pending events
LastSent(k) ==
    LET last == CHOOSE i \in 1 .. Len(Pending) :
                   /\ Pending[i][1] = k
                   /\ \A j \in i + 1 .. Len(Pending) : Pending[j][1] # k
    IN Pending[last][2]

\* C27: for events of keys 1..8, once sending stops and cycle() has been
\* called until the channel is empty, the entry of every key with an event
\* sent equals the state of the last event sent for it: a key pressed and
\* then released is not left recorded as pressed.
C27_KeyStateConverges ==
    (/\ fault = "none"
     /\ \A i \in 1 .. Len(Pending) : Pending[i][1] \in 1 .. 8) =>
        LET final == Drained(cpu)
        IN /\ ~IsPanic(final)
           /\ \A k \in 1 .. 8 :
                 (\E i \in 1 .. Len(Pending) : Pending[i][1] = k) =>
                     final.key_registers[k] = LastSent(k)

(* ------------------------------------------------------------------ *)
(* C28                                                                 *)
(* ------------------------------------------------------------------ *)
\* C28: right after a cycle that executes Fx18 with Vx >= 1, whatever the
\* time since the sound timer last decremented, get_sound_timer() returns a
\* value above 0: the timer does not reach 0 before a period has elapsed
\* since that cycle.
C28_SoundRequestObservable ==
    [][(/\ Cycle
        /\ Fetched[1] = 15 /\ Fetched[3] = 1 /\ Fetched[4] = 8
        /\ cpu.registers[Fetched[2]] >= 1) =>
           get_sound_timer(cpu') > 0]_vars

====
